---- MODULE Spec2Model ----
(***************************************************************************)
(* Model of the dependency resolver of npm-offline-packager                *)
(* (lib/fetch-packages.js, concatenated into src/lib/npm-top.js):          *)
(* getManifestDependencies, getPackageManifest, resolveDependencies and    *)
(* handlerError, driven by the fetch command of src/unnamed/part_000.      *)
(*                                                                         *)
(* A string that holds a version, a range or a tag is modelled by its      *)
(* text split in three parts:                                              *)
(*     pre   the leading run of '^' and '~' characters                     *)
(*     nums  the dot-separated numeric components that follow              *)
(*     word  a trailing identifier ("latest", "garbage", or "")            *)
(* so "^1.0.0" is [pre |-> <<"^">>, nums |-> <<1,0,0>>, word |-> ""] and    *)
(* "latest" is [pre |-> <<>>, nums |-> <<>>, word |-> "latest"].             *)
(***************************************************************************)
EXTENDS Integers, Sequences, FiniteSets, TLC

\* ------------------------------------------------------------------ bounds

\* How many registry calls of one run may fail with a network error.
MaxFaults == 1

\* How many resolveDependencies calls of one pass may be nested.
MaxDepth == 8

\* The longest list of packages a run hands to the download.
MaxPackages == 3

\* The largest quantity getNpmTopPackages is asked for.
MaxQuantity == 5300

\* ----------------------------------------------------------------- strings

Str(pre, nums, word) == [pre |-> pre, nums |-> nums, word |-> word]

Ver(M, m, p) == Str(<<>>, <<M, m, p>>, "")

Caret(M, m, p) == Str(<<"^">>, <<M, m, p>>, "")

Tilde(M, m, p) == Str(<<"~">>, <<M, m, p>>, "")

LATEST == Str(<<>>, <<>>, "latest")

\* s.replace(ch, ''): removes the FIRST occurrence of ch, wherever it is.
RECURSIVE RemoveFirst(_, _)
RemoveFirst(seq, ch) ==
    IF seq = <<>> THEN <<>>
    ELSE IF Head(seq) = ch THEN Tail(seq)
    ELSE <<Head(seq)>> \o RemoveFirst(Tail(seq), ch)

Replace(s, ch) == [s EXCEPT !.pre = RemoveFirst(s.pre, ch)]

\* semver.valid(s): s is MAJOR.MINOR.PATCH and nothing else.
SemverValid(s) == s.pre = <<>> /\ Len(s.nums) = 3 /\ s.word = ""

NULL == [kind |-> "null"]

UNDEFINED == [kind |-> "undefined"]

\* semver.coerce(s): the first N[.N[.N]] of the text, zero-filled; null when
\* the text holds no number.
SemverCoerce(s) ==
    IF Len(s.nums) = 0 THEN NULL
    ELSE [kind |-> "semver",
          version |-> Str(<<>>, [i \in 1..3 |-> IF i <= Len(s.nums) THEN s.nums[i] ELSE 0], "")]

\* Order of two concrete versions' components.
NumsLess(v, w) ==
    \/ v[1] < w[1]
    \/ v[1] = w[1] /\ v[2] < w[2]
    \/ v[1] = w[1] /\ v[2] = w[2] /\ v[3] < w[3]

NumsGeq(v, w) == ~NumsLess(v, w)

\* semver.satisfies(v, range) for the ranges "^M.m.p" and "~M.m.p".
Satisfies(v, range) ==
    LET r == range.nums IN
    /\ NumsGeq(v, r)
    /\ IF range.pre = <<"^">>
       THEN IF r[1] > 0 THEN v[1] = r[1]
            ELSE v[1] = 0 /\ v[2] = r[2]
       ELSE v[1] = r[1] /\ v[2] = r[2]

IsRange(s) == s.pre \in {<<"^">>, <<"~">>} /\ Len(s.nums) = 3 /\ s.word = ""

\* ---------------------------------------------------------------- registry

\* An object with string keys is a sequence of [name, range] entries with
\* distinct names, in insertion order (the order Object.keys lists them).
Keys(obj) == {obj[i].name : i \in 1..Len(obj)}

Get(obj, name) == (CHOOSE i \in 1..Len(obj) : obj[i].name = name)

Entry(name, range) == [name |-> name, range |-> range]

\* The registry's document of one published version.
Manifest(name, nums, deps, dev, peer, opt) ==
    [name |-> name, version |-> Str(<<>>, nums, ""),
     dependencies |-> deps, devDependencies |-> dev,
     peerDependencies |-> peer, optionalDependencies |-> opt]

\* The error of a request that fails; its message names the request.
Failure(code, tags, name, spec) ==
    [kind |-> "error", code |-> code, distTags |-> tags, name |-> name, spec |-> spec]

Found(m) == [kind |-> "ok", manifest |-> m]

Exists(reg, name) == name \in DOMAIN reg /\ reg[name].versions # {}

\* The highest of a non-empty set of versions.
MaxVersion(vs) == CHOOSE v \in vs : \A w \in vs : NumsGeq(v, w)

\* pacote.manifest(`${name}@${spec}`): the registry's pick for a spec. A
\* concrete version is looked up; a range picks dist-tags.latest when it
\* satisfies the range and the highest satisfying version otherwise; a tag
\* is looked up in dist-tags, which hold "latest" alone. `up` is whether the
\* request reaches the registry at all.
PacoteManifest(reg, name, spec, up) ==
    IF ~up THEN Failure("ECONNRESET", NULL, name, spec)
    ELSE IF ~Exists(reg, name) THEN Failure("E404", NULL, name, spec)
    ELSE LET pkg  == reg[name]
             tags == [kind |-> "tags", latest |-> Str(<<>>, pkg.latest, "")]
             sat  == {v \in pkg.versions : Satisfies(v, spec)}
         IN IF spec = LATEST THEN Found(pkg.manifests[pkg.latest])
            ELSE IF SemverValid(spec)
                 THEN IF spec.nums \in pkg.versions
                      THEN Found(pkg.manifests[spec.nums])
                      ELSE Failure("ETARGET", tags, name, spec)
            ELSE IF IsRange(spec)
                 THEN IF pkg.latest \in sat THEN Found(pkg.manifests[pkg.latest])
                      ELSE IF sat # {} THEN Found(pkg.manifests[MaxVersion(sat)])
                      ELSE Failure("ETARGET", tags, name, spec)
            ELSE Failure("ETARGET", tags, name, spec)

\* pacote.packument(name): the package's document, of which the code reads
\* dist-tags alone.
PacotePackument(reg, name, up) ==
    IF ~up THEN Failure("ECONNRESET", NULL, name, UNDEFINED)
    ELSE IF ~Exists(reg, name) THEN Failure("E404", NULL, name, UNDEFINED)
    ELSE [kind |-> "ok",
          packument |-> [kind |-> "packument",
                         latest |-> Str(<<>>, reg[name].latest, "")]]

\* ------------------------------------------------- getManifestDependencies

\* One source object of lodash merge(object, ...sources): a key the object
\* holds keeps its place and takes the source's value, a new key is appended.
RECURSIVE MergeInto(_, _)
MergeInto(obj, src) ==
    IF src = <<>> THEN obj
    ELSE LET e == Head(src)
             next == IF e.name \in Keys(obj)
                     THEN [obj EXCEPT ![Get(obj, e.name)] = e]
                     ELSE Append(obj, e)
         IN MergeInto(next, Tail(src))

\* MergedDependencies with the sources in the opposite order.
MergedDependenciesDevLast(manifest, options) ==
    MergeInto(
        MergeInto(
            MergeInto(manifest.dependencies,
                      IF options.optional THEN manifest.optionalDependencies ELSE <<>>),
            IF options.peer THEN manifest.peerDependencies ELSE <<>>),
        IF options.dev THEN manifest.devDependencies ELSE <<>>)

\* merge(manifest.dependencies, dev, peer, optional): the sources are applied
\* from left to right, a category the options leave out being {}.
MergedDependencies(manifest, options) ==
    MergeInto(
        MergeInto(
            MergeInto(manifest.dependencies,
                      IF options.dev THEN manifest.devDependencies ELSE <<>>),
            IF options.peer THEN manifest.peerDependencies ELSE <<>>),
        IF options.optional THEN manifest.optionalDependencies ELSE <<>>)

\* The body of the map callback: the {name, version} of one dependency.
DependencyOf(entry) ==
    LET version      == entry.range
        cleanVersion == Replace(Replace(version, "^"), "~")
        coerceVersion == SemverCoerce(cleanVersion)
    IN [name |-> entry.name,
        version |-> IF ~SemverValid(cleanVersion)
                    THEN IF coerceVersion.kind = "null" THEN LATEST
                         ELSE coerceVersion.version
                    ELSE version]

getManifestDependencies(manifest, options) ==
    LET packages == MergedDependencies(manifest, options)
    IN [i \in 1..Len(packages) |-> DependencyOf(packages[i])]

\* ------------------------------------------------------ getPackageManifest

Faults == {"none", "manifest", "notfound", "retry", "packument"}

\* The answer to the first pacote.manifest of the Promise.all. The fault
\* "manifest" is a network error on it; the fault "notfound" is a registry
\* that answers it with E404 whatever it holds.
FirstManifest(reg, packageName, packageVersion, fault) ==
    IF fault = "notfound"
    THEN Failure("E404", NULL, packageName, packageVersion)
    ELSE PacoteManifest(reg, packageName, packageVersion, fault # "manifest")

\* ManifestWithFallback without the ETARGET branch of the catch handler.
ManifestWithoutTargetFallback(reg, packageName, packageVersion, fault) ==
    LET first == FirstManifest(reg, packageName, packageVersion, fault)
    IN IF first.kind = "ok" THEN first
       ELSE IF first.code = "E404"
            THEN IF packageVersion # LATEST
                 THEN PacoteManifest(reg, packageName, LATEST, fault # "retry")
                 ELSE Failure("NOTFOUND", NULL, packageName, packageVersion)
       ELSE first

\* ManifestWithFallback whose catch handler rejects on E404 without a retry.
ManifestWithoutRetry(reg, packageName, packageVersion, fault) ==
    LET first == FirstManifest(reg, packageName, packageVersion, fault)
    IN IF first.kind = "ok" THEN first
       ELSE IF first.code = "ETARGET"
            THEN PacoteManifest(reg, packageName, first.distTags.latest, fault # "retry")
       ELSE first

\* The manifest promise of the Promise.all: pacote.manifest and its catch
\* handler. `fault` names the request that fails with a network error.
ManifestWithFallback(reg, packageName, packageVersion, fault) ==
    LET first == FirstManifest(reg, packageName, packageVersion, fault)
    IN IF first.kind = "ok" THEN first
       ELSE IF first.code = "ETARGET"
            THEN PacoteManifest(reg, packageName, first.distTags.latest, fault # "retry")
       ELSE IF first.code = "E404"
            THEN IF packageVersion # LATEST
                 THEN PacoteManifest(reg, packageName, LATEST, fault # "retry")
                 ELSE Failure("NOTFOUND", NULL, packageName, packageVersion)
       ELSE first

\* The packument promise of the Promise.all: undefined for 'latest'.
PackumentOrNothing(reg, packageName, packageVersion, fault) ==
    IF packageVersion # LATEST
    THEN PacotePackument(reg, packageName, fault # "packument")
    ELSE [kind |-> "ok", packument |-> UNDEFINED]

\* IsLatestOf that never looks at the packument.
IsLatestAlways(manifest, packument) == TRUE

\* manifest.isLatest as the then handler sets it.
IsLatestOf(manifest, packument) ==
    IF packument.kind # "undefined"
    THEN packument.latest = manifest.version
    ELSE TRUE

WithIsLatest(m, isLatest) ==
    [name |-> m.name, version |-> m.version, isLatest |-> isLatest,
     dependencies |-> m.dependencies, devDependencies |-> m.devDependencies,
     peerDependencies |-> m.peerDependencies,
     optionalDependencies |-> m.optionalDependencies]

\* getPackageManifest that resolves without a packument when its fetch fails.
getPackageManifestLenient(reg, packageName, packageVersion, fault) ==
    LET manifest  == ManifestWithFallback(reg, packageName, packageVersion, fault)
        packument == PackumentOrNothing(reg, packageName, packageVersion, fault)
    IN IF manifest.kind # "ok" THEN manifest
       ELSE IF packument.kind # "ok" THEN Found(WithIsLatest(manifest.manifest, FALSE))
       ELSE Found(WithIsLatest(manifest.manifest, IsLatestOf(manifest.manifest, packument.packument)))

\* getPackageManifest(name, version): resolves to the manifest with isLatest
\* set, or rejects when either promise of the Promise.all rejects.
getPackageManifest(reg, packageName, packageVersion, fault) ==
    LET manifest  == ManifestWithFallback(reg, packageName, packageVersion, fault)
        packument == PackumentOrNothing(reg, packageName, packageVersion, fault)
    IN IF manifest.kind # "ok" THEN manifest
       ELSE IF packument.kind # "ok" THEN packument
       ELSE Found(WithIsLatest(manifest.manifest, IsLatestOf(manifest.manifest, packument.packument)))

\* The specs the manifest promise requests from the registry, in order.
ManifestCalls(reg, packageName, packageVersion, fault) ==
    LET first == FirstManifest(reg, packageName, packageVersion, fault)
    IN IF first.kind = "ok" THEN <<packageVersion>>
       ELSE IF first.code = "ETARGET" THEN <<packageVersion, first.distTags.latest>>
       ELSE IF first.code = "E404" /\ packageVersion # LATEST THEN <<packageVersion, LATEST>>
       ELSE <<packageVersion>>

\* ------------------------------------------------------- resolvedPackages

\* The in-memory record of resolved packages of lib/cache: a mapping from a
\* name to the set of its versions, with get, set and clean.
CacheGet(cache, name, version) == name \in DOMAIN cache /\ version \in cache[name]

CacheSet(cache, name, version) ==
    IF name \in DOMAIN cache
    THEN [cache EXCEPT ![name] = @ \cup {version}]
    ELSE (name :> {version}) @@ cache

CacheClean == << >>

RECURSIVE CacheSetAll(_, _)
CacheSetAll(cache, manifests) ==
    IF manifests = <<>> THEN cache
    ELSE CacheSetAll(CacheSet(cache, Head(manifests).name, Head(manifests).version),
                     Tail(manifests))

\* ------------------------------------------------------------------- state

VARIABLES
    registry,          \* the registry's content, fixed during a run
    packagesObj,       \* per pass: the root manifest handed to resolveDependencies
    options,           \* per pass: the options object, shared by the pass's calls
    resolvedPackages,  \* the visited set, shared by all passes
    stack,             \* per pass: the frames of the nested resolveDependencies calls
    state,             \* per pass: "start", "running" or "done"
    dependencies,      \* per pass: the array the outermost call resolved to
    console,           \* what handlerError wrote
    faults,            \* how many requests failed with a network error
    edges,             \* history: what became of every dependency of every manifest
    expanded,          \* history: the manifests resolveDependencies was called on
    tarballCache,      \* the tarball cache of lib/cache, kept across runs
    files,             \* the paths pacote.tarball.toFile wrote
    download,          \* the downloadPackages call
    command,           \* the fetch command: its options, position and output
    top                \* the getNpmTopPackages call

\* The state of the download stage and of the top-packages search.
dvars == <<tarballCache, files, download, command, top>>

vars == <<registry, packagesObj, options, resolvedPackages, stack, state,
          dependencies, console, faults, edges, expanded,
          tarballCache, files, download, command, top>>

Passes == DOMAIN stack

PENDING == [kind |-> "pending"]

\* The coordinate of a manifest; the root manifest has no name.
Coord(name, version) == [name |-> name, version |-> version]

ROOT == Coord("", Str(<<>>, <<>>, ""))

\* 1/k added to a fraction.
AddFraction(q, k) == [num |-> q.num * k + q.den, den |-> q.den * k]

\* The frame of a resolveDependencies call that runs up to its first await:
\* the early return of [] when the manifest has no dependencies, otherwise
\* the filter on the visited set and the start of the manifest fetches.
CallFrame(self, manifest, opts, cache) ==
    LET deps == getManifestDependencies(manifest, opts)
        NotResolved(d) == ~CacheGet(cache, d.name, d.version)
        fetching == SelectSeq(deps, NotResolved)
    IN [pc |-> IF Len(deps) = 0 THEN "return" ELSE "await",
        self |-> self,
        packages |-> MergedDependencies(manifest, opts),
        dependencies |-> deps,
        fetching |-> fetching,
        settled |-> [k \in 1..Len(fetching) |-> PENDING],
        fault |-> [k \in 1..Len(fetching) |-> "none"],
        manifests |-> <<>>,
        i |-> 1,
        result |-> <<>>]

\* History: what became of the dependency d of the call of a frame. The
\* outcome is "visited" (dropped before any fetch), "failed", "duplicate"
\* (dropped after its fetch) or "added"; the target is what it resolved to,
\* and the fault is the request of its fetch that met a network error.
Edge(p, frame, d, outcome, target, isLatest, fault) ==
    [pass |-> p, parent |-> frame.self, name |-> d.name,
     range |-> frame.packages[Get(frame.packages, d.name)].range,
     query |-> d.version, outcome |-> outcome, target |-> target,
     isLatest |-> isLatest, fault |-> fault]

\* History of the dependencies the filter of a call drops before any fetch.
SkippedEdges(p, frame) ==
    {Edge(p, frame, d, "visited", Coord(d.name, d.version), FALSE, "none") :
        d \in {frame.dependencies[k] : k \in 1..Len(frame.dependencies)} \
              {frame.fetching[k] : k \in 1..Len(frame.fetching)}}

Top(p) == stack[p][Len(stack[p])]

\* The fetches of the call a pass is in.
Fetching(p) == IF stack[p] = <<>> THEN {} ELSE 1..Len(Top(p).fetching)

\* The fetch command calls resolveDependencies(packagesObj, options).
Start(p) ==
    /\ state[p] = "start"
    /\ LET frame == CallFrame(ROOT, packagesObj[p], options[p], resolvedPackages)
       IN /\ stack' = [stack EXCEPT ![p] = <<frame>>]
          /\ edges' = edges \cup SkippedEdges(p, frame)
    /\ state' = [state EXCEPT ![p] = "running"]
    /\ UNCHANGED dvars
    /\ UNCHANGED <<registry, packagesObj, options, resolvedPackages, dependencies,
                   console, faults, expanded>>

\* handlerError that writes nothing.
handlerErrorSilent(log, error) == log

\* handlerError(error): the error is written to the console.
handlerError(log, error) == log \cup {error}

\* Caught without the catch: a rejection stays a rejection.
Uncaught(r) == r

\* What getPackageManifest(...).catch(handlerError) settles to: the manifest,
\* or undefined, which handlerError returns.
Caught(r) == IF r.kind = "ok" THEN r ELSE UNDEFINED

\* One getPackageManifest(name, version).catch(handlerError) of the
\* Promise.all settles. The registry answers, or one of its requests fails.
FetchSettle(p, k, fault) ==
    /\ state[p] = "running"
    /\ Top(p).pc = "await"
    /\ k \in 1..Len(Top(p).fetching)
    /\ Top(p).settled[k].kind = "pending"
    /\ fault # "none" => faults < MaxFaults
    /\ LET d == Top(p).fetching[k]
           r == getPackageManifest(registry, d.name, d.version, fault)
       IN /\ stack' = [stack EXCEPT ![p][Len(stack[p])].settled[k] = Caught(r),
                                     ![p][Len(stack[p])].fault[k] = fault]
          /\ console' = IF r.kind = "ok" THEN console ELSE handlerError(console, r)
          /\ edges' = IF r.kind = "ok" THEN edges
                      ELSE edges \cup {Edge(p, Top(p), d, "failed",
                                            Coord(d.name, d.version), FALSE, fault)}
    /\ faults' = IF fault = "none" THEN faults ELSE faults + 1
    /\ UNCHANGED dvars
    /\ UNCHANGED <<registry, packagesObj, options, resolvedPackages, state,
                   dependencies, expanded>>

\* NewManifests without the look at the visited set.
NewManifestsUnfiltered(settled, cache) ==
    LET Keep(r) == r.kind = "ok"
        kept == SelectSeq(settled, Keep)
    IN [j \in 1..Len(kept) |-> kept[j].manifest]

\* The manifests that survive the filter after the Promise.all: those that
\* resolved and whose real version the visited set does not hold.
NewManifests(settled, cache) ==
    LET Keep(r) == r.kind = "ok" /\ ~CacheGet(cache, r.manifest.name, r.manifest.version)
        kept == SelectSeq(settled, Keep)
    IN [j \in 1..Len(kept) |-> kept[j].manifest]

\* AddResolved that adds nothing.
AddResolvedNothing(cache, manifests) == cache

\* manifests.forEach(p => resolvedPackages.set(p.name, p.version)).
AddResolved(cache, manifests) == CacheSetAll(cache, manifests)

\* The Promise.all of a call settles. When every promise resolved: filter the
\* manifests on the visited set, then add each of them to it. A promise that
\* rejected rejects the Promise.all, and with it the call and all its callers.
Join(p) ==
    /\ state[p] = "running"
    /\ Top(p).pc = "await"
    /\ \A k \in 1..Len(Top(p).fetching) : Top(p).settled[k].kind # "pending"
    /\ LET f == Top(p)
           manifests == NewManifests(f.settled, resolvedPackages)
       IN IF \E k \in 1..Len(f.fetching) : f.settled[k].kind = "error"
          THEN /\ state' = [state EXCEPT ![p] = "rejected"]
               /\ stack' = [stack EXCEPT ![p] = <<>>]
               /\ UNCHANGED <<resolvedPackages, edges>>
          ELSE /\ resolvedPackages' = AddResolved(resolvedPackages, manifests)
               /\ stack' = [stack EXCEPT ![p][Len(stack[p])] =
                                [f EXCEPT !.pc = "loop", !.manifests = manifests,
                                          !.i = 1, !.result = <<>>]]
               /\ edges' = edges \cup
                     {Edge(p, f, f.fetching[k],
                           IF CacheGet(resolvedPackages, f.settled[k].manifest.name,
                                       f.settled[k].manifest.version)
                           THEN "duplicate" ELSE "added",
                           Coord(f.settled[k].manifest.name, f.settled[k].manifest.version),
                           f.settled[k].manifest.isLatest, f.fault[k]) :
                         k \in {j \in 1..Len(f.fetching) : f.settled[j].kind = "ok"}}
               /\ UNCHANGED state
    /\ UNCHANGED dvars
    /\ UNCHANGED <<registry, packagesObj, options, dependencies, console,
                   faults, expanded>>

\* The element pushed for a manifest.
Element(m) == [name |-> m.name, version |-> m.version, isLatest |-> m.isLatest]

\* One turn of the for loop up to its await: push the manifest's element and
\* call resolveDependencies on it with the depth raised in the shared options.
Expand(p) ==
    /\ state[p] = "running"
    /\ Top(p).pc = "loop"
    /\ Top(p).i <= Len(Top(p).manifests)
    /\ Len(stack[p]) < MaxDepth
    /\ LET f == Top(p)
           currManifest == f.manifests[f.i]
           opts == [options[p] EXCEPT !.depth = @ + 1]
           child == CallFrame(Coord(currManifest.name, currManifest.version),
                              currManifest, opts, resolvedPackages)
       IN /\ options' = [options EXCEPT ![p] = opts]
          /\ stack' = [stack EXCEPT ![p] =
                 Append([stack[p] EXCEPT ![Len(stack[p])] =
                            [f EXCEPT !.pc = "wait",
                                      !.result = Append(@, Element(currManifest))]],
                        child)]
          /\ edges' = edges \cup SkippedEdges(p, child)
          /\ expanded' = Append(expanded, [pass |-> p, name |-> currManifest.name,
                                           version |-> currManifest.version])
    /\ UNCHANGED dvars
    /\ UNCHANGED <<registry, packagesObj, resolvedPackages, state, dependencies,
                   console, faults>>

\* Concat that puts the children first.
ConcatFront(result, dependenciesChilds) == dependenciesChilds \o result

\* result.push(...dependenciesChilds).
Concat(result, dependenciesChilds) == result \o dependenciesChilds

\* A call returns its result: to the fetch command when it is the outermost
\* call, otherwise to the loop that awaits it, which counts the progress of
\* the top of the tree and concatenates the result.
Return(p) ==
    /\ state[p] = "running"
    /\ \/ Top(p).pc = "return"
       \/ Top(p).pc = "loop" /\ Top(p).i > Len(Top(p).manifests)
    /\ LET n == Len(stack[p])
           dependenciesChilds == Top(p).result
       IN IF n = 1
          THEN /\ stack' = [stack EXCEPT ![p] = <<>>]
               /\ state' = [state EXCEPT ![p] = "done"]
               /\ dependencies' = [dependencies EXCEPT ![p] = dependenciesChilds]
               /\ UNCHANGED options
          ELSE LET parent == stack[p][n - 1]
               IN /\ options' = [options EXCEPT ![p].progress =
                         IF options[p].depth = 0
                         THEN AddFraction(@, Len(parent.dependencies)) ELSE @]
                  /\ stack' = [stack EXCEPT ![p] =
                         [SubSeq(stack[p], 1, n - 1) EXCEPT ![n - 1] =
                            [parent EXCEPT !.pc = "loop", !.i = @ + 1,
                                           !.result = Concat(@, dependenciesChilds)]]]
                  /\ UNCHANGED <<state, dependencies>>
    /\ UNCHANGED dvars
    /\ UNCHANGED <<registry, packagesObj, resolvedPackages, console, faults,
                   edges, expanded>>

\* ------------------------------------------------------------ tarball cache

\* The tarball cache of lib/cache: the set of (name, version) pairs whose
\* tarball was written before.
CacheExist(pairs, name, version) == Coord(name, version) \in pairs

CacheAdd(pairs, name, version) == pairs \cup {Coord(name, version)}

\* --------------------------------------------------- downloadPackageTarball

\* The characters of a package name, as far as the path tells them apart:
\* a scope, the '/' or '-' after it and the rest.
Chars(name) ==
    CASE name = "@s/c" -> <<"@s", "/", "c">>
      [] name = "@s-c" -> <<"@s", "-", "c">>
      [] OTHER -> <<name>>

\* String.prototype.replace with a string pattern: the first occurrence only.
RECURSIVE ReplaceFirst(_, _, _)
ReplaceFirst(s, pattern, by) ==
    IF s = <<>> THEN <<>>
    ELSE IF Head(s) = pattern THEN <<by>> \o Tail(s)
    ELSE <<Head(s)>> \o ReplaceFirst(Tail(s), pattern, by)

\* The components of a version joined by dots.
RECURSIVE Dotted(_)
Dotted(nums) ==
    IF nums = <<>> THEN <<>>
    ELSE IF Len(nums) = 1 THEN <<ToString(nums[1])>>
    ELSE <<ToString(Head(nums)), ".">> \o Dotted(Tail(nums))

\* The characters of a version string, as a template literal inserts them.
Text(s) == s.pre \o Dotted(s.nums) \o (IF s.word = "" THEN <<>> ELSE <<s.word>>)

\* TarballPath that never marks the latest version.
TarballPathUnmarked(destFolder, name, version, isLatest) ==
    <<destFolder, "/">> \o ReplaceFirst(Chars(name), "/", "-") \o <<"-">> \o Text(version)
        \o <<".tgz">>

\* The file pacote.tarball.toFile is asked to write.
TarballPath(destFolder, name, version, isLatest) ==
    <<destFolder, "/">> \o ReplaceFirst(Chars(name), "/", "-") \o <<"-">> \o Text(version)
        \o (IF isLatest THEN <<"-latest">> ELSE <<>>) \o <<".tgz">>

\* What downloadPackageTarball resolves to.
Downloaded(p) ==
    [kind |-> "package", name |-> p.name, version |-> p.version, isLatest |-> p.isLatest]

\* ---------------------------------------------------------- downloadPackages

\* PackagesToDownload that never asks the cache.
PackagesToDownloadAll(packages, useCache, pairs) == packages

\* The packages downloadPackages fetches: with useCache, those the cache does
\* not hold.
PackagesToDownload(packages, useCache, pairs) ==
    LET Missing(p) == ~CacheExist(pairs, p.name, p.version)
    IN IF useCache THEN SelectSeq(packages, Missing) ELSE packages

\* AddDownloaded that adds whatever useCache is.
AddDownloadedAlways(pairs, useCache, p) == CacheAdd(pairs, p.name, p.version)

\* `if (useCache) cache.add(name, version)` of the then handler.
AddDownloaded(pairs, useCache, p) ==
    IF useCache THEN CacheAdd(pairs, p.name, p.version) ELSE pairs

\* A promise that settled: resolved with a value or rejected with an error.
Resolved(value) == [kind |-> "ok", value |-> value]

\* promise.catch(error => { handlerError(error); return null; }).
CatchNull(r) == IF r.kind = "ok" THEN r ELSE Resolved(NULL)

\* The entry Promise.allSettled reports for a settled promise.
Settled(r) ==
    IF r.kind = "ok" THEN [status |-> "fulfilled", value |-> r.value]
    ELSE [status |-> "rejected", reason |-> r]

\* No downloadPackages call was made.
IdleDownload ==
    [pc |-> "idle", useCache |-> FALSE, destFolder |-> ".", packages |-> <<>>,
     packagesToDownload |-> <<>>, promises |-> <<>>, counter |-> 0,
     percent |-> [num |-> 0, den |-> 1], exist |-> 0, cached |-> {}, written |-> {}, failed |-> {},
     result |-> <<>>]

\* downloadPackages(packages, {useCache, destFolder}) up to its await: the
\* filter on the cache and one downloadPackageTarball per remaining package.
\* History: `exist` counts the calls of cache.exist, `cached` keeps the cache
\* as it was at the call, `written` the tarballs written and `failed` the
\* promises whose fetch or write failed.
DownloadCall(packages, useCache, destFolder, pairs) ==
    LET packagesToDownload == PackagesToDownload(packages, useCache, pairs)
    IN [pc |-> "await", useCache |-> useCache, destFolder |-> destFolder,
        packages |-> packages, packagesToDownload |-> packagesToDownload,
        promises |-> [k \in 1..Len(packagesToDownload) |-> PENDING],
        counter |-> 0, percent |-> [num |-> 0, den |-> 1],
        exist |-> IF useCache THEN Len(packages) ELSE 0,
        cached |-> pairs, written |-> {}, failed |-> {}, result |-> <<>>]

\* The promises of the call that have not settled.
Downloading == {k \in 1..Len(download.promises) : download.promises[k].kind = "pending"}

\* One promise of the Promise.allSettled settles: the tarball was written
\* (then handler: counter, percent, cache.add with useCache), or its fetch or
\* write failed (catch handler: handlerError, null).
TarballSettle(k, ok) ==
    /\ download.pc = "await"
    /\ k \in Downloading
    /\ LET p == download.packagesToDownload[k]
           path == TarballPath(download.destFolder, p.name, p.version, p.isLatest)
           r == IF ok THEN Resolved(Downloaded(p))
                ELSE Failure("ECONNRESET", NULL, p.name, p.version)
       IN /\ files' = IF ok THEN files \cup {path} ELSE files
          /\ tarballCache' = IF ok THEN AddDownloaded(tarballCache, download.useCache, p)
                             ELSE tarballCache
          /\ console' = IF ok THEN console ELSE handlerError(console, r)
          /\ download' =
                [download EXCEPT
                    !.promises[k] = CatchNull(r),
                    !.counter = IF ok THEN @ + 1 ELSE @,
                    !.percent = IF ok THEN [num |-> download.counter + 1,
                                            den |-> Len(download.packagesToDownload)]
                                ELSE @,
                    !.written = IF ok THEN @ \cup {[package |-> p, path |-> path]} ELSE @,
                    !.failed = IF ok THEN @ ELSE @ \cup {k}]
    /\ UNCHANGED <<registry, packagesObj, options, resolvedPackages, stack, state,
                   dependencies, faults, edges, expanded, command, top>>

\* Every promise has settled: Promise.allSettled resolves and downloadPackages
\* returns its entries.
DownloadReturn ==
    /\ download.pc = "await"
    /\ Downloading = {}
    /\ download' = [download EXCEPT
                        !.pc = "returned",
                        !.result = [k \in 1..Len(download.promises) |->
                                        Settled(download.promises[k])]]
    /\ UNCHANGED <<registry, packagesObj, options, resolvedPackages, stack, state,
                   dependencies, console, faults, edges, expanded,
                   tarballCache, files, command, top>>

\* ------------------------------------------------------------- fetch command

\* The fetch command as commander hands it to the action: --no-cache sets
\* command.cache to false, and nothing was written yet.
FetchCommand(cacheOption) ==
    [pc |-> "start", cache |-> cacheOption, dest |-> FALSE, echo |-> <<>>]

\* The fetch command once the destination folder exists and the visited set
\* is clean: it awaits resolveDependencies.
Resolving == [pc |-> "resolve", cache |-> FALSE, dest |-> TRUE, echo |-> <<>>]

\* No command runs: a program that requires the library calls it.
NoCommand == [pc |-> "none", cache |-> FALSE, dest |-> TRUE, echo |-> <<>>]

DEST == "dest"

\* readdirSync(destFolder).
FilesIn(folder) == {f \in files : f[1] = folder}

\* The action of the fetch command, from its first statement to the call of
\* resolveDependencies, for arguments that pass the validation.
FetchStart ==
    /\ command.pc = "start"
    /\ command' = [command EXCEPT !.cache = FALSE, !.dest = TRUE, !.pc = "resolve"]
    /\ resolvedPackages' = CacheClean
    /\ UNCHANGED <<registry, packagesObj, options, stack, state, dependencies,
                   console, faults, edges, expanded, tarballCache, files, download, top>>

\* resolveDependencies returned: the stage's summary, then the call of
\* downloadPackages with useCache: command.cache.
FetchResolved(deps) ==
    /\ command.pc = "resolve"
    /\ download.pc = "idle"
    /\ dependencies' = [p \in Passes |-> deps]
    /\ state' = [p \in Passes |-> "done"]
    /\ command' = [command EXCEPT
                      !.pc = "download",
                      !.echo = Append(@, [kind |-> "resolved", packages |-> Len(deps)])]
    /\ download' = DownloadCall(deps, command.cache, DEST, tarballCache)
    /\ UNCHANGED <<registry, packagesObj, options, resolvedPackages, stack,
                   console, faults, edges, expanded, tarballCache, files, top>>

\* A program that requires the library calls downloadPackages itself.
LibraryCall(packages, useCache) ==
    /\ command.pc = "none"
    /\ download.pc = "idle"
    /\ download' = DownloadCall(packages, useCache, ".", tarballCache)
    /\ UNCHANGED <<registry, packagesObj, options, resolvedPackages, stack, state,
                   dependencies, console, faults, edges, expanded,
                   tarballCache, files, command, top>>

\* inspection.isFulfilled(): a call of a property the object does not have
\* throws a TypeError.
IsFulfilledThrows(inspection) == "isFulfilled" \notin DOMAIN inspection

\* The statements after `await downloadPackages(...)`: the filter over the
\* result, the stage's summary, and for an empty result the removal of the
\* empty destination folder and the message. An exception ends the action in
\* its catch, which writes the error's message.
FetchReport ==
    /\ command.pc = "download"
    /\ download.pc = "returned"
    /\ LET result == download.result
           inCachePackages == Len(dependencies[1]) - Len(result)
           summary == [kind |-> "fetched", completed |-> Len(result),
                       packages |-> Len(result), inCache |-> inCachePackages]
       IN IF \E i \in 1..Len(result) : IsFulfilledThrows(result[i])
          THEN /\ command' = [command EXCEPT
                                 !.pc = "caught",
                                 !.echo = Append(@, [kind |-> "error",
                                                     message |-> "TypeError"])]
          ELSE IF Len(result) = 0
          THEN /\ command' = [command EXCEPT
                                 !.pc = "end",
                                 !.dest = FilesIn(DEST) # {},
                                 !.echo = @ \o <<summary, [kind |-> "nothing"]>>]
          ELSE /\ command' = [command EXCEPT
                                 !.pc = "end",
                                 !.echo = @ \o <<summary, [kind |-> "duration"]>>]
    /\ UNCHANGED <<registry, packagesObj, options, resolvedPackages, stack, state,
                   dependencies, console, faults, edges, expanded,
                   tarballCache, files, download, top>>

\* --------------------------------------------------------- getNpmTopPackages

CHUNK_SIZE == 250

\* The most packages the search is asked for.
MAX_QUANTITY == 5250

Min(a, b) == IF a < b THEN a ELSE b

\* Math.ceil(a / b) for a >= 0 and b > 0.
Ceil(a, b) == (a + b - 1) \div b

\* PageSize that gives every last page the remainder.
PageSizeRemainder(index, chunks, lastChunk) ==
    IF index < chunks THEN CHUNK_SIZE ELSE lastChunk

\* The size of the page a turn of the loop asks for.
PageSize(index, chunks, lastChunk) ==
    IF index < chunks \/ lastChunk = 0 THEN CHUNK_SIZE ELSE lastChunk

\* No getNpmTopPackages call was made.
IdleTop ==
    [pc |-> "idle", quantity |-> 0, packagesQuantity |-> 0, chunks |-> 0,
     lastChunk |-> 0, index |-> 0, requests |-> <<>>]

\* getNpmTopPackages(quantity) up to its loop.
TopCall(quantity) ==
    /\ top.pc = "idle"
    /\ LET packagesQuantity == Min(quantity, MAX_QUANTITY)
       IN top' = [pc |-> "loop", quantity |-> quantity,
                  packagesQuantity |-> packagesQuantity,
                  chunks |-> Ceil(packagesQuantity, CHUNK_SIZE),
                  lastChunk |-> packagesQuantity % CHUNK_SIZE,
                  index |-> 1, requests |-> <<>>]
    /\ UNCHANGED <<registry, packagesObj, options, resolvedPackages, stack, state,
                   dependencies, console, faults, edges, expanded,
                   tarballCache, files, download, command>>

\* One turn of the loop: the search request for the page of the index.
TopPage ==
    /\ top.pc = "loop"
    /\ top.index <= top.chunks
    /\ top' = [top EXCEPT
                  !.requests = Append(@, [size |-> PageSize(top.index, top.chunks,
                                                            top.lastChunk),
                                          from |-> (top.index - 1) * CHUNK_SIZE]),
                  !.index = @ + 1]
    /\ UNCHANGED <<registry, packagesObj, options, resolvedPackages, stack, state,
                   dependencies, console, faults, edges, expanded,
                   tarballCache, files, download, command>>

\* The loop is over: getNpmTopPackages returns.
TopReturn ==
    /\ top.pc = "loop"
    /\ top.index > top.chunks
    /\ top' = [top EXCEPT !.pc = "returned"]
    /\ UNCHANGED <<registry, packagesObj, options, resolvedPackages, stack, state,
                   dependencies, console, faults, edges, expanded,
                   tarballCache, files, download, command>>

\* ------------------------------------------------------------------ inputs

V100 == <<1, 0, 0>>

V120 == <<1, 2, 0>>

Dep(name, range) == <<Entry(name, range)>>

\* A package: its published versions, dist-tags.latest and manifests.
Package(name, versions, latest, depsOf) ==
    [versions |-> versions, latest |-> latest,
     manifests |-> [v \in versions |->
                        Manifest(name, v, depsOf[v].dependencies, depsOf[v].devDependencies,
                                 <<>>, depsOf[v].optionalDependencies)]]

Deps(deps, dev, opt) ==
    [dependencies |-> deps, devDependencies |-> dev, optionalDependencies |-> opt]

\* What a@1.0.0 may depend on: nothing, b by version, by range, by a version
\* that does not exist, or b and x, a package the registry does not hold.
DepsOfA == {<<>>, Dep("b", Ver(1, 0, 0)), Dep("b", Caret(1, 0, 0)),
            Dep("b", Ver(9, 9, 9)), Dep("x", Ver(1, 0, 0)) \o Dep("b", Ver(1, 0, 0))}

\* What b@1.0.0 may depend on: nothing, or a (closing a cycle), by version,
\* by range or by tag.
DepsOfB == {<<>>, Dep("a", Ver(1, 0, 0)), Dep("a", Caret(1, 0, 0)), Dep("a", LATEST)}

\* The registries: a is published as 1.0.0 and 1.2.0 with either as latest,
\* b as 1.0.0; x is not published.
GraphRegistry(latestA, depsA, depsB) ==
    [a |-> Package("a", {V100, V120}, latestA,
                   (V100 :> Deps(depsA, <<>>, <<>>)) @@ (V120 :> Deps(<<>>, <<>>, <<>>))),
     b |-> Package("b", {V100}, V100, (V100 :> Deps(depsB, <<>>, <<>>)))]

GraphRegistries ==
    {GraphRegistry(l, da, db) : l \in {V100, V120}, da \in DepsOfA, db \in DepsOfB}

\* The root manifests of the graph runs.
GraphRoots ==
    {Dep("a", Ver(1, 0, 0)),
     Dep("a", Caret(1, 0, 0)) \o Dep("b", Ver(1, 0, 0)),
     Dep("b", Ver(1, 0, 0)) \o Dep("a", LATEST),
     Dep("x", Ver(1, 0, 0)) \o Dep("a", Ver(9, 9, 9))}

\* The range strings of the seeds of the version runs.
SeedRanges ==
    {Ver(1, 0, 0), Ver(1, 2, 0), Ver(9, 9, 9), Caret(1, 0, 0), Tilde(1, 0, 0),
     Caret(2, 0, 0), Str(<<"^", "^">>, <<1, 0, 0>>, ""), Str(<<"~", "^">>, <<1, 0, 0>>, ""),
     Str(<<>>, <<1, 2>>, ""), Str(<<"^">>, <<1>>, ""), LATEST, Str(<<>>, <<>>, "garbage")}

\* The registry of the merge runs: a's manifests name b in several categories.
MergeRegistry ==
    [a |-> Package("a", {V100, V120}, V120,
                   (V100 :> Deps(Dep("b", Ver(1, 0, 0)), Dep("b", Ver(1, 2, 0)), <<>>))
                   @@ (V120 :> Deps(<<>>, <<>>, Dep("b", Caret(1, 0, 0))))),
     b |-> Package("b", {V100, V120}, V100,
                   (V100 :> Deps(<<>>, <<>>, <<>>)) @@ (V120 :> Deps(<<>>, <<>>, <<>>)))]

Booleans == {TRUE, FALSE}

RootManifest(deps, dev, peer, opt) ==
    [dependencies |-> deps, devDependencies |-> dev,
     peerDependencies |-> peer, optionalDependencies |-> opt]

\* The options the fetch command passes; depth and progress are not set yet,
\* which `options.depth || 0` and `options.progress || 0` read as 0.
Options(dev, peer, optional) ==
    [dev |-> dev, peer |-> peer, optional |-> optional,
     depth |-> 0, progress |-> [num |-> 0, den |-> 1]]

\* Runs over the dependency graphs: runtime dependencies alone.
InitGraph ==
    /\ registry \in GraphRegistries
    /\ \E root \in GraphRoots :
          packagesObj = [p \in {1} |-> RootManifest(root, <<>>, <<>>, <<>>)]
    /\ options = [p \in {1} |-> Options(FALSE, FALSE, FALSE)]

\* Runs over the seeds' range strings.
InitSeed ==
    /\ registry \in {GraphRegistry(l, Dep("b", Caret(1, 0, 0)), <<>>) : l \in {V100, V120}}
    /\ \E r \in SeedRanges, n \in {"a", "x"} :
          packagesObj = [p \in {1} |-> RootManifest(Dep(n, r), <<>>, <<>>, <<>>)]
    /\ options = [p \in {1} |-> Options(FALSE, FALSE, FALSE)]

\* Runs over the categories of dependencies and the options that include them.
InitMerge ==
    /\ registry = MergeRegistry
    /\ \E deps \in {<<>>, Dep("a", Ver(1, 0, 0))},
          dev \in {<<>>, Dep("a", Ver(1, 2, 0)), Dep("b", Ver(1, 0, 0)) \o Dep("a", Ver(1, 2, 0))},
          peer \in {<<>>, Dep("a", Tilde(1, 0, 0))},
          opt \in {<<>>, Dep("a", LATEST)} :
          packagesObj = [p \in {1} |-> RootManifest(deps, dev, peer, opt)]
    /\ \E dev \in Booleans, peer \in Booleans, optional \in Booleans :
          options = [p \in {1} |-> Options(dev, peer, optional)]

\* The state in which the fetch command has cleaned the visited set and is
\* about to resolve.
Init ==
    /\ InitGraph \/ InitSeed \/ InitMerge
    /\ resolvedPackages = CacheClean
    /\ stack = [p \in {1} |-> <<>>]
    /\ state = [p \in {1} |-> "start"]
    /\ dependencies = [p \in {1} |-> <<>>]
    /\ console = {}
    /\ faults = 0
    /\ edges = {}
    /\ expanded = <<>>
    /\ tarballCache = {}
    /\ files = {}
    /\ download = IdleDownload
    /\ command = Resolving
    /\ top = IdleTop

Next ==
    \/ \E p \in Passes : Start(p)
    \/ \E p \in Passes : \E k \in Fetching(p), fault \in Faults : FetchSettle(p, k, fault)
    \/ \E p \in Passes : Join(p)
    \/ \E p \in Passes : Expand(p)
    \/ \E p \in Passes : Return(p)

Spec == Init /\ [][Next]_vars

\* Every call that can take a step eventually takes it: the event loop runs
\* every settled promise's continuation and every request settles.
FairSpec == Spec /\ WF_vars(Next)

Done == \A p \in Passes : state[p] = "done"

\* ------------------------------------------------------ download stage runs

\* The packages a resolve pass may hand to the download: y@1.0.0, which is
\* not y's latest version, z@1.0.0 and the scoped @s/c@1.2.0, which are.
Resolvable ==
    {[name |-> "y", version |-> Ver(1, 0, 0), isLatest |-> FALSE],
     [name |-> "z", version |-> Ver(1, 0, 0), isLatest |-> TRUE],
     [name |-> "@s/c", version |-> Ver(1, 2, 0), isLatest |-> TRUE]}

\* The flat lists of up to MaxPackages packages, none of them twice.
ResolvedLists ==
    {s \in UNION {[1..n -> Resolvable] : n \in 0..MaxPackages} :
        \A i, j \in 1..Len(s) : s[i] = s[j] => i = j}

\* What earlier runs may have left: any tarball cache, and a destination
\* folder that is absent or holds a file.
TarballCaches == SUBSET {Coord(p.name, p.version) : p \in Resolvable}

OtherFiles == {{}, {<<DEST, "/", "other">>}}

\* The resolver at rest.
ResolverIdle ==
    /\ registry = MergeRegistry
    /\ packagesObj = [p \in {1} |-> RootManifest(<<>>, <<>>, <<>>, <<>>)]
    /\ options = [p \in {1} |-> Options(FALSE, FALSE, FALSE)]
    /\ resolvedPackages = CacheClean
    /\ stack = [p \in {1} |-> <<>>]
    /\ state = [p \in {1} |-> "start"]
    /\ dependencies = [p \in {1} |-> <<>>]
    /\ console = {}
    /\ faults = 0
    /\ edges = {}
    /\ expanded = <<>>

\* The fetch command is about to run with or without --no-cache, or a
\* program is about to call downloadPackages.
InitDownload ==
    /\ ResolverIdle
    /\ tarballCache \in TarballCaches
    /\ files \in OtherFiles
    /\ download = IdleDownload
    /\ command \in {FetchCommand(c) : c \in Booleans} \cup {NoCommand}
    /\ top = IdleTop

DownloadNext ==
    \/ FetchStart
    \/ \E deps \in ResolvedLists : FetchResolved(deps)
    \/ \E packages \in ResolvedLists, useCache \in Booleans : LibraryCall(packages, useCache)
    \/ \E k \in Downloading, ok \in Booleans : TarballSettle(k, ok)
    \/ DownloadReturn
    \/ FetchReport

DownloadSpec == InitDownload /\ [][DownloadNext]_vars

\* ------------------------------------------------------- top packages runs

InitTop ==
    /\ ResolverIdle
    /\ tarballCache = {}
    /\ files = {}
    /\ download = IdleDownload
    /\ command = NoCommand
    /\ top = IdleTop

TopNext ==
    \/ \E quantity \in 1..MaxQuantity : TopCall(quantity)
    \/ TopPage
    \/ TopReturn

TopSpec == InitTop /\ [][TopNext]_vars

\* ------------------------------------------------------------------ claims

\* The (name, version) of the i-th element of a result.
CoordAt(result, i) == Coord(result[i].name, result[i].version)

InResult(result, c) == \E i \in 1..Len(result) : CoordAt(result, i) = c

\* The position of the first element of a result with a coordinate.
IndexOf(result, c) == CHOOSE i \in 1..Len(result) :
    /\ CoordAt(result, i) = c
    /\ \A j \in 1..(i - 1) : CoordAt(result, j) # c

\* C1: the sequence one resolve pass returns holds no two elements with the
\* same (name, version).
C1_NoDuplicates ==
    \A p \in Passes :
        state[p] = "done" =>
            \A i, j \in 1..Len(dependencies[p]) :
                i # j => CoordAt(dependencies[p], i) # CoordAt(dependencies[p], j)

\* A pass returned two elements or more after one of its fetches resolved to a
\* package the visited set already held.
C1_Witness ==
    \E p \in Passes :
        /\ state[p] = "done"
        /\ Len(dependencies[p]) >= 2
        /\ \E e \in edges : e.pass = p /\ e.outcome = "duplicate"

\* No manifest is expanded twice.
ExpandedOnce ==
    \A i, j \in 1..Len(expanded) : i # j => expanded[i] # expanded[j]

\* The cycle a@1.0.0 -> b@1.0.0 -> a@1.0.0, entered from the seed a@1.0.0.
IsCycle(p) ==
    /\ packagesObj[p].dependencies = Dep("a", Ver(1, 0, 0))
    /\ registry.a.manifests[V100].dependencies = Dep("b", Ver(1, 0, 0))
    /\ registry.b.manifests[V100].dependencies = Dep("a", Ver(1, 0, 0))

CycleResult ==
    \A p \in Passes :
        IsCycle(p) /\ state[p] = "done" /\ faults = 0 =>
            [i \in 1..Len(dependencies[p]) |-> CoordAt(dependencies[p], i)]
                = <<Coord("a", Ver(1, 0, 0)), Coord("b", Ver(1, 0, 0))>>

\* C2: a resolve pass terminates, also over a registry whose dependency
\* graph has a cycle; it expands no (name, version) twice; and the cycle
\* a@1.0.0 -> b@1.0.0 -> a@1.0.0 resolves to exactly a@1.0.0 and b@1.0.0.
C2_CycleTerminates == <>Done /\ [](ExpandedOnce /\ CycleResult)

\* The pass over the cycle is done, having dropped the edge that closes it.
C2_Witness ==
    \E p \in Passes :
        /\ IsCycle(p) /\ state[p] = "done" /\ faults = 0
        /\ \E e \in edges : /\ e.pass = p /\ e.outcome = "visited"
                             /\ e.parent = Coord("b", Ver(1, 0, 0))
                             /\ e.target = Coord("a", Ver(1, 0, 0))

\* The manifest with a coordinate: the root manifest of the pass, or the
\* registry's document of a published version.
ManifestAt(p, c) ==
    IF c = ROOT THEN packagesObj[p]
    ELSE registry[c.name].manifests[c.version.nums]

\* The manifests a pass reached: the root manifest and every expanded one.
Reached(p) ==
    {ROOT} \cup {Coord(expanded[i].name, expanded[i].version) :
                    i \in {j \in 1..Len(expanded) : expanded[j].pass = p}}

\* The dependencies of a manifest the options of a pass include.
IncludedDependencies(p, c) ==
    LET deps == getManifestDependencies(ManifestAt(p, c), options[p])
    IN {deps[k] : k \in 1..Len(deps)}

C4_ParentFirst ==
    \A p \in Passes :
        state[p] = "done" =>
            \A e \in edges :
                e.pass = p /\ e.outcome = "added" /\ e.parent # ROOT =>
                    /\ InResult(dependencies[p], e.parent)
                    /\ InResult(dependencies[p], e.target)
                    /\ IndexOf(dependencies[p], e.parent) < IndexOf(dependencies[p], e.target)

\* A pass is done whose result holds a grandchild of a seed.
C4_Witness ==
    \E p \in Passes :
        /\ state[p] = "done"
        /\ \E e1, e2 \in edges :
              /\ e1.pass = p /\ e2.pass = p
              /\ e1.outcome = "added" /\ e2.outcome = "added"
              /\ e1.parent # ROOT /\ e2.parent = e1.target

\* The history of the dependency `name` of the manifest c in pass p.
EdgesOf(p, c, name) == {e \in edges : e.pass = p /\ e.parent = c /\ e.name = name}

IsExpanded(p, c) ==
    \E i \in 1..Len(expanded) :
        expanded[i] = [pass |-> p, name |-> c.name, version |-> c.version]

\* C5: a dependency whose fetch fails does not reject the pass and adds no
\* element, and every other dependency of the same manifest whose fetch
\* resolved is in the result and was expanded.
C5_FailedEdgeIsolated ==
    \A p \in Passes :
        /\ state[p] # "rejected"
        /\ state[p] = "done" =>
              \A e \in edges :
                  e.pass = p /\ e.outcome = "failed" =>
                      /\ EdgesOf(p, e.parent, e.name) = {e}
                      /\ \A d \in IncludedDependencies(p, e.parent) :
                            d.name # e.name =>
                                /\ EdgesOf(p, e.parent, d.name) # {}
                                /\ \A s \in EdgesOf(p, e.parent, d.name) :
                                      s.outcome \in {"added", "duplicate"} =>
                                          /\ InResult(dependencies[p], s.target)
                                          /\ IsExpanded(p, s.target)

\* A pass is done in which one dependency failed and another dependency of
\* the same manifest was added and had dependencies of its own.
C5_Witness ==
    \E p \in Passes :
        /\ state[p] = "done"
        /\ \E e, s, t \in edges :
              /\ e.pass = p /\ s.pass = p /\ t.pass = p
              /\ e.outcome = "failed" /\ s.outcome = "added"
              /\ s.parent = e.parent /\ s.name # e.name
              /\ t.parent = s.target /\ t.outcome = "added"

\* The text of a range without its leading '^' or '~'.
Stripped(range) == Str(<<>>, range.nums, "")

\* C6: for a range that is a single '^' or '~' before a concrete version,
\* the version the resolver asks the registry for is the concrete version, and
\* the dependency resolves to that version when the registry holds it.
C6_StrippedQuery ==
    \A e \in edges :
        IsRange(e.range) =>
            /\ e.query = Stripped(e.range)
            /\ (/\ e.outcome \in {"added", "duplicate"}
                /\ Exists(registry, e.name)
                /\ e.range.nums \in registry[e.name].versions)
               => e.target.version = Stripped(e.range)

\* The dependencies of one category of a manifest.
Category(manifest, cat) ==
    CASE cat = "dev" -> manifest.devDependencies
      [] cat = "peer" -> manifest.peerDependencies
      [] cat = "optional" -> manifest.optionalDependencies
      [] cat = "runtime" -> manifest.dependencies

\* The categories of a manifest that the options include and that name a
\* dependency.
Naming(manifest, opts, name) ==
    {cat \in {"dev", "peer", "optional", "runtime"} :
        /\ cat = "runtime" \/ opts[cat]
        /\ name \in Keys(Category(manifest, cat))}

\* The range of a dependency in the first category of an order that names it.
RangeByPrecedence(manifest, opts, name, order) ==
    LET first == CHOOSE i \in 1..Len(order) :
                    /\ order[i] \in Naming(manifest, opts, name)
                    /\ \A j \in 1..(i - 1) : order[j] \notin Naming(manifest, opts, name)
        obj == Category(manifest, order[first])
    IN obj[Get(obj, name)].range

\* C7 as stated: the range of a dependency that several included categories
\* name is taken with precedence dev > peer > optional > runtime.
C7_DevFirst ==
    \A e \in edges :
        e.range = RangeByPrecedence(ManifestAt(e.pass, e.parent), options[e.pass], e.name,
                                    <<"dev", "peer", "optional", "runtime">>)

\* C7 as amended: the range of a dependency that several included categories
\* name is taken with precedence optional > peer > dev > runtime, the last
\* source of the merge winning.
C7_LaterCategoryWins ==
    \A e \in edges :
        e.range = RangeByPrecedence(ManifestAt(e.pass, e.parent), options[e.pass], e.name,
                                    <<"optional", "peer", "dev", "runtime">>)

\* A dependency was queried that the devDependencies and the
\* optionalDependencies of its manifest both name, both being included.
C7_Witness ==
    \E e \in edges :
        LET m == ManifestAt(e.pass, e.parent)
        IN /\ {"dev", "optional"} \subseteq Naming(m, options[e.pass], e.name)
           /\ e.outcome # "visited"
           /\ e.range = m.optionalDependencies[Get(m.optionalDependencies, e.name)].range
           /\ e.range # m.devDependencies[Get(m.devDependencies, e.name)].range

\* The added edge of an element of a result.
AddedEdges(p, c) == {e \in edges : e.pass = p /\ e.outcome = "added" /\ e.target = c}

\* C8: an element's isLatest is true exactly when its dependency was queried
\* with the tag 'latest' or the registry's dist-tags.latest of its name is
\* its version.
C8_IsLatest ==
    \A p \in Passes :
        state[p] = "done" =>
            \A i \in 1..Len(dependencies[p]) :
                LET el == dependencies[p][i]
                    added == AddedEdges(p, CoordAt(dependencies[p], i))
                IN /\ Cardinality(added) = 1
                   /\ \A e \in added :
                         el.isLatest <=>
                             \/ e.query = LATEST
                             \/ Str(<<>>, registry[el.name].latest, "") = el.version

\* A result holds an element that is not the latest version of its package
\* and one that is and was not queried with the tag.
C8_Witness ==
    \E p \in Passes :
        /\ state[p] = "done"
        /\ \E i, j \in 1..Len(dependencies[p]) :
              /\ ~dependencies[p][i].isLatest
              /\ dependencies[p][j].isLatest
              /\ \A e \in AddedEdges(p, CoordAt(dependencies[p], j)) : e.query # LATEST

\* The fetch of an edge asked with a version other than 'latest' got its
\* manifest and lost its packument to a network error.
PackumentFailed(e) ==
    /\ e.outcome # "visited"
    /\ e.fault = "packument"
    /\ e.query # LATEST
    /\ ManifestWithFallback(registry, e.name, e.query, e.fault).kind = "ok"

\* The manifest the fetch of an edge got.
ManifestGot(e) == ManifestWithFallback(registry, e.name, e.query, e.fault).manifest

\* C9 as stated: when the manifest of an edge not asked with 'latest' is
\* fetched and its packument fetch fails, the package is still an element of
\* the result, with isLatest false.
C9_EmittedNotLatest ==
    \A p \in Passes :
        state[p] = "done" =>
            \A e \in edges :
                e.pass = p /\ PackumentFailed(e) =>
                    \E i \in 1..Len(dependencies[p]) :
                        /\ CoordAt(dependencies[p], i)
                              = Coord(ManifestGot(e).name, ManifestGot(e).version)
                        /\ ~dependencies[p][i].isLatest

\* C9 as amended: when the manifest of an edge not asked with 'latest' is
\* fetched and its packument fetch fails, the fetch of the edge fails as a
\* whole: the error is logged, the edge adds no element and the pass goes on
\* to its end.
C9_PackumentFailureDropsEdge ==
    \A p \in Passes :
        /\ state[p] # "rejected"
        /\ \A e \in edges :
              e.pass = p /\ PackumentFailed(e) =>
                  /\ e.outcome = "failed"
                  /\ EdgesOf(p, e.parent, e.name) = {e}
                  /\ \E error \in console :
                        error.name = e.name /\ error.spec = UNDEFINED
                  /\ state[p] = "done" /\ AddedEdges(p, Coord(ManifestGot(e).name,
                                                             ManifestGot(e).version)) = {}
                        => ~InResult(dependencies[p], Coord(ManifestGot(e).name,
                                                            ManifestGot(e).version))

\* A pass is done whose result lacks a package whose manifest was fetched
\* and whose packument fetch failed.
C9_Witness ==
    \E p \in Passes :
        /\ state[p] = "done"
        /\ \E e \in edges :
              /\ e.pass = p /\ PackumentFailed(e)
              /\ ~InResult(dependencies[p], Coord(ManifestGot(e).name, ManifestGot(e).version))
              /\ Len(dependencies[p]) > 0

\* The first manifest request of an edge reached the registry, which holds
\* the package and not the version asked for.
TargetMissing(e) ==
    /\ e.outcome # "visited"
    /\ FirstManifest(registry, e.name, e.query, e.fault).kind = "error"
    /\ FirstManifest(registry, e.name, e.query, e.fault).code = "ETARGET"

\* The seed a@9.9.9 where a's latest version is 1.2.0, which depends on
\* nothing.
IsTargetSeed(p) ==
    /\ packagesObj[p].dependencies = Dep("a", Ver(9, 9, 9))
    /\ registry.a.latest = V120

\* C10: when the manifest fetch of name@version fails with ETARGET carrying
\* distTags.latest = X, the client requests the manifest of name@X and, no
\* request meeting a network error, the edge resolves to the element the
\* query X resolves to; the seed a@9.9.9 with latest 1.2.0 returns exactly
\* a@1.2.0.
C10_TargetMissingFallback ==
    /\ \A e \in edges :
          TargetMissing(e) =>
              LET X == PacoteManifest(registry, e.name, e.query, TRUE).distTags.latest
                  asX == getPackageManifest(registry, e.name, X, "none")
              IN /\ ManifestCalls(registry, e.name, e.query, e.fault) = <<e.query, X>>
                 /\ e.fault = "none" =>
                       /\ asX.kind = "ok"
                       /\ e.outcome \in {"added", "duplicate"}
                       /\ e.target = Coord(asX.manifest.name, asX.manifest.version)
                       /\ e.target.version = X
                       /\ e.isLatest = asX.manifest.isLatest
    /\ \A p \in Passes :
          IsTargetSeed(p) /\ state[p] = "done" /\ faults = 0 =>
              dependencies[p] = <<[name |-> "a", version |-> Ver(1, 2, 0), isLatest |-> TRUE]>>

\* The pass over the seed a@9.9.9 is done and returned one element.
C10_Witness ==
    \E p \in Passes :
        /\ IsTargetSeed(p) /\ state[p] = "done" /\ faults = 0
        /\ Len(dependencies[p]) = 1
        /\ \E e \in edges : e.pass = p /\ TargetMissing(e) /\ e.outcome = "added"

\* The first manifest request of an edge was answered with E404.
NotFoundFirst(e) ==
    /\ e.outcome # "visited"
    /\ FirstManifest(registry, e.name, e.query, e.fault).kind = "error"
    /\ FirstManifest(registry, e.name, e.query, e.fault).code = "E404"

\* C11: when the first manifest request of an edge is answered with E404 and
\* the query is not 'latest', the manifest requests are exactly the query and
\* then 'latest'; when that retry and the packument request succeed the edge
\* resolves to the manifest the retry returned, and when the retry fails the
\* edge fails. When the query is 'latest' the only manifest request is the
\* first one, the error is written to the console and the edge fails.
C11_NotFoundRetry ==
    \A e \in edges :
        NotFoundFirst(e) =>
            LET retry     == PacoteManifest(registry, e.name, LATEST, e.fault # "retry")
                packument == PackumentOrNothing(registry, e.name, e.query, e.fault)
                calls     == ManifestCalls(registry, e.name, e.query, e.fault)
            IN IF e.query # LATEST
               THEN /\ calls = <<e.query, LATEST>>
                    /\ retry.kind = "ok" /\ packument.kind = "ok" =>
                           /\ e.outcome \in {"added", "duplicate"}
                           /\ e.target = Coord(retry.manifest.name, retry.manifest.version)
                    /\ retry.kind # "ok" =>
                           /\ e.outcome = "failed"
                           /\ \E error \in console : error.name = e.name
               ELSE /\ calls = <<LATEST>>
                    /\ e.outcome = "failed"
                    /\ \E error \in console : error.name = e.name

\* A finished pass in which a query other than 'latest' was answered with
\* E404 and the retry's manifest is in the result.
C11_Witness ==
    /\ Done
    /\ \E e \in edges : /\ NotFoundFirst(e)
                        /\ e.query # LATEST
                        /\ e.outcome = "added"
                        /\ InResult(dependencies[e.pass], e.target)

\* A query of 'latest' was answered with E404.
NotFoundLatest == \E e \in edges : NotFoundFirst(e) /\ e.query = LATEST

\* The input packages of the downloadPackages call the cache held at the call.
WasCached(p) == CacheExist(download.cached, p.name, p.version)

CachedInput == {i \in 1..Len(download.packages) : WasCached(download.packages[i])}

\* C12: a downloadPackages call with useCache fetches and writes no input
\* package the tarball cache held at the call; its result has no entry for
\* such a package and as many entries as there are input packages the cache
\* did not hold.
C12_CachedSkipped ==
    download.pc # "idle" /\ download.useCache =>
        /\ \A k \in 1..Len(download.packagesToDownload) :
               ~WasCached(download.packagesToDownload[k])
        /\ \A w \in download.written : ~WasCached(w.package)
        /\ download.pc = "returned" =>
               /\ Len(download.result) = Len(download.packages) - Cardinality(CachedInput)
               /\ \A k \in 1..Len(download.result) :
                      download.result[k].value.kind = "package" =>
                          ~WasCached(download.result[k].value)

\* A call with useCache returned: one input package was in the cache, and
\* another one was not and was written.
C12_Witness ==
    /\ download.pc = "returned"
    /\ download.useCache
    /\ CachedInput # {}
    /\ download.written # {}
    /\ Len(download.result) < Len(download.packages)

\* C13: the tarball cache gains a pair only in a call with useCache and only
\* once the tarball of that package was written; a package whose fetch or
\* write failed is not added; without useCache the call never asks the cache
\* and leaves it as it was.
C13_CacheAddedOnWrite ==
    download.pc # "idle" =>
        /\ download.cached \subseteq tarballCache
        /\ \A pair \in tarballCache \ download.cached :
               /\ download.useCache
               /\ \E w \in download.written :
                      /\ Coord(w.package.name, w.package.version) = pair
                      /\ w.path \in files
        /\ \A k \in download.failed :
               LET p == download.packagesToDownload[k]
               IN Coord(p.name, p.version) \notin tarballCache \ download.cached
        /\ ~download.useCache => tarballCache = download.cached /\ download.exist = 0

\* A call with useCache returned: one package was written and added to the
\* cache, and another one failed and was not added.
C13_Witness ==
    /\ download.pc = "returned"
    /\ download.useCache
    /\ download.failed # {}
    /\ \E w \in download.written :
           Coord(w.package.name, w.package.version) \in tarballCache \ download.cached

\* C14: downloadPackages returns one entry per package it attempted; the
\* entry of a package whose fetch or write failed is a rejected one, and the
\* entry of every other package is a fulfilled one.
C14_FailedIsRejected ==
    download.pc = "returned" =>
        /\ Len(download.result) = Len(download.packagesToDownload)
        /\ \A k \in 1..Len(download.result) :
               download.result[k].status =
                   IF k \in download.failed THEN "rejected" ELSE "fulfilled"

\* The fetch command is over: it returned or its catch ran.
CommandOver == command.pc \in {"end", "caught"}

Echoed(kind) == \E i \in 1..Len(command.echo) : command.echo[i].kind = kind

\* C15: when the fetch command resolved one package and its download failed,
\* the command ends with an empty download result, without the destination
\* folder if nothing else is in it, and with the message that no packages
\* were fetched.
C15_FailedDownloadCleansUp ==
    CommandOver /\ Len(dependencies[1]) = 1 /\ download.failed = {1} =>
        /\ download.result = <<>>
        /\ FilesIn(DEST) = {} => ~command.dest
        /\ Echoed("nothing")

\* C16: when the fetch command is over, no resolved package the tarball cache
\* held at the start was written, and the summary of the download stage
\* reports as many packages in cache as there are such packages.
C16_CachedReported ==
    CommandOver =>
        /\ \A w \in download.written : ~WasCached(w.package)
        /\ \E i \in 1..Len(command.echo) :
               /\ command.echo[i].kind = "fetched"
               /\ command.echo[i].inCache = Cardinality(CachedInput)

\* C17: when the fetch command is over, the summary of the download stage was
\* written and no exception reached the catch.
C17_SummaryEmitted ==
    CommandOver => Echoed("fetched") /\ ~Echoed("error") /\ command.pc = "end"

\* Every '/' of a name replaced by '-'.
Dashed(name) ==
    [i \in 1..Len(Chars(name)) |-> IF Chars(name)[i] = "/" THEN "-" ELSE Chars(name)[i]]

\* C18: every tarball written for a package (name, version, isLatest), whose
\* name holds at most one '/', is the file
\* <destFolder>/<name with '/' replaced by '-'>-<version>.tgz with '-latest'
\* before '.tgz' exactly when isLatest is true.
C18_PathSchema ==
    \A w \in download.written :
        LET n == Len(w.path)
            marked == w.path[n - 1] = "-latest"
            stem == SubSeq(w.path, 1, IF marked THEN n - 2 ELSE n - 1)
        IN /\ w.path \in files
           /\ w.path[n] = ".tgz"
           /\ marked <=> w.package.isLatest
           /\ stem = <<download.destFolder, "/">> \o Dashed(w.package.name)
                         \o <<"-">> \o Text(w.package.version)

\* The call wrote the tarball of a scoped package that is its latest version
\* and the tarball of a package that is not.
C18_Witness ==
    /\ \E w \in download.written : w.package.name = "@s/c" /\ w.package.isLatest
    /\ \E w \in download.written : ~w.package.isLatest

\* The sum of the sizes of the pages asked for.
RECURSIVE SumOfSizes(_)
SumOfSizes(requests) ==
    IF requests = <<>> THEN 0 ELSE Head(requests).size + SumOfSizes(Tail(requests))

\* C19: the pages getNpmTopPackages(q) asks for, for q >= 1, have sizes of at
\* most 250 each, page i starts at offset 250 * (i - 1), and once the call
\* returns the sizes add up to min(q, 5250): 5250 for q = 5300, and the two
\* pages of sizes 250 and 1 for q = 251.
C19_PageSizes ==
    /\ \A i \in 1..Len(top.requests) :
           /\ top.requests[i].size <= 250
           /\ top.requests[i].from = 250 * (i - 1)
    /\ top.pc = "returned" =>
           /\ SumOfSizes(top.requests) = Min(top.quantity, 5250)
           /\ top.quantity = 5300 => SumOfSizes(top.requests) = 5250
           /\ top.quantity = 251 =>
                  /\ Len(top.requests) = 2
                  /\ top.requests[1].size = 250
                  /\ top.requests[2].size = 1

\* getNpmTopPackages(5300) returned after 21 pages.
C19_Witness ==
    /\ top.pc = "returned"
    /\ top.quantity = 5300
    /\ Len(top.requests) = 21

\* getNpmTopPackages(251) returned after two pages.
TopOfTwoPages ==
    /\ top.pc = "returned"
    /\ top.quantity = 251
    /\ Len(top.requests) = 2

\* C20: in every step of a pass that completes the subtree of a root edge,
\* the progress of the options grows by 1 / rootEdgeCount, and no other step
\* changes it.
C20_ProgressPerRootEdge ==
    [][\A p \in Passes :
          LET before == options[p].progress
              after  == options'[p].progress
          IN IF Len(stack[p]) = 2 /\ Len(stack'[p]) = 1
             THEN LET rootEdgeCount == Len(stack[p][1].dependencies)
                  IN after.num * before.den * rootEdgeCount =
                         (before.num * rootEdgeCount + before.den) * after.den
             ELSE after.num * before.den = before.num * after.den]_vars

\* -------------------------------------------------------- concurrent passes

\* The registries of the concurrent runs: both versions of a depend on
\* b@1.0.0, one by range and one by version; b depends on nothing, or on a by
\* version or by tag.
RaceRegistry(depsB) ==
    [a |-> Package("a", {V100, V120}, V120,
                   (V100 :> Deps(Dep("b", Caret(1, 0, 0)), <<>>, <<>>))
                   @@ (V120 :> Deps(Dep("b", Ver(1, 0, 0)), <<>>, <<>>))),
     b |-> Package("b", {V100}, V100, (V100 :> Deps(depsB, <<>>, <<>>)))]

\* The roots of two passes that run at once: one version of a each, as
\* downloadAllVersionsOf starts them, the same version twice, or a and b.
RaceRoots ==
    {<<Dep("a", Ver(1, 0, 0)), Dep("a", Ver(1, 2, 0))>>,
     <<Dep("a", Ver(1, 0, 0)), Dep("a", Ver(1, 0, 0))>>,
     <<Dep("a", Ver(1, 2, 0)), Dep("b", Ver(1, 0, 0))>>}

\* Two resolveDependencies calls were made in one turn of the event loop;
\* neither has run yet, and each has its own options object.
InitRace ==
    /\ registry \in {RaceRegistry(depsB) :
                        depsB \in {<<>>, Dep("a", Ver(1, 0, 0)), Dep("a", LATEST)}}
    /\ \E roots \in RaceRoots :
          packagesObj = [p \in {1, 2} |-> RootManifest(roots[p], <<>>, <<>>, <<>>)]
    /\ options = [p \in {1, 2} |-> Options(FALSE, FALSE, FALSE)]
    /\ resolvedPackages = CacheClean
    /\ stack = [p \in {1, 2} |-> <<>>]
    /\ state = [p \in {1, 2} |-> "start"]
    /\ dependencies = [p \in {1, 2} |-> <<>>]
    /\ console = {}
    /\ faults = 0
    /\ edges = {}
    /\ expanded = <<>>
    /\ tarballCache = {}
    /\ files = {}
    /\ download = IdleDownload
    /\ command = NoCommand
    /\ top = IdleTop

RaceSpec == InitRace /\ [][Next]_vars

\* The edges of all passes whose fetch resolved to a coordinate.
FetchedEdges(c) == {e \in edges : e.target = c /\ e.outcome \in {"added", "duplicate"}}

\* The passes that emitted a coordinate, and those that expanded it.
Emitters(c) == {p \in Passes : InResult(dependencies[p], c)}

Expanders(c) ==
    {expanded[i].pass : i \in {j \in 1..Len(expanded) :
                                  Coord(expanded[j].name, expanded[j].version) = c}}

\* How often the resolveDependencies calls of all passes were handed a
\* coordinate's manifest.
Expansions(c) ==
    Cardinality({j \in 1..Len(expanded) :
                    Coord(expanded[j].name, expanded[j].version) = c})

\* C21: whatever the order in which the fetches of concurrent passes settle,
\* of all the fetches that resolve to one (name, version) exactly one adds it
\* to the visited set and every other one is discarded; only the pass of that
\* fetch expands the manifest, once, and when all passes are done it is in
\* the result of that pass and of no other.
C21_OneWinner ==
    \A c \in {e.target : e \in edges} :
        FetchedEdges(c) # {} =>
            LET winners == {e \in FetchedEdges(c) : e.outcome = "added"}
            IN /\ Cardinality(winners) = 1
               /\ Expansions(c) <= 1
               /\ \A e \in winners :
                      /\ Expanders(c) \subseteq {e.pass}
                      /\ Emitters(c) \subseteq {e.pass}
                      /\ Done => Expanders(c) = {e.pass} /\ Emitters(c) = {e.pass}

\* Both passes are done, and fetches of both, started for the same query
\* while the visited set did not hold it, resolved to the same (name,
\* version): one added it and the other was discarded.
C21_Witness ==
    /\ Done
    /\ \E e1, e2 \in edges :
           /\ e1.pass # e2.pass
           /\ e1.query = e2.query
           /\ e1.target = e2.target
           /\ e1.outcome = "added"
           /\ e2.outcome = "duplicate"
           /\ Emitters(e1.target) = {e1.pass}

\* ------------------------------------------------------- colliding packages

\* Packages one resolve pass may return together: a@1.0.0, which is a's
\* latest version, and the prerelease a@1.0.0-latest, which is not; the scoped
\* @s/c@1.2.0 and @s-c@1.2.0; and z@1.0.0.
Similar ==
    {[name |-> "a", version |-> Ver(1, 0, 0), isLatest |-> TRUE],
     [name |-> "a", version |-> Str(<<>>, <<1, 0, 0>>, "-latest"), isLatest |-> FALSE],
     [name |-> "@s/c", version |-> Ver(1, 2, 0), isLatest |-> TRUE],
     [name |-> "@s-c", version |-> Ver(1, 2, 0), isLatest |-> TRUE],
     [name |-> "z", version |-> Ver(1, 0, 0), isLatest |-> TRUE]}

\* The flat lists of up to MaxPackages of them, none twice.
SimilarLists ==
    {s \in UNION {[1..n -> Similar] : n \in 0..MaxPackages} :
        \A i, j \in 1..Len(s) : s[i] = s[j] => i = j}

\* A program is about to call downloadPackages, as downloadAllVersionsOf
\* does with what its passes returned.
InitSimilar ==
    /\ ResolverIdle
    /\ tarballCache = {}
    /\ files = {}
    /\ download = IdleDownload
    /\ command = NoCommand
    /\ top = IdleTop

SimilarNext ==
    \/ \E packages \in SimilarLists, useCache \in Booleans : LibraryCall(packages, useCache)
    \/ \E k \in Downloading, ok \in Booleans : TarballSettle(k, ok)
    \/ DownloadReturn

SimilarSpec == InitSimilar /\ [][SimilarNext]_vars

\* The file the k-th downloadPackageTarball of the call was asked to write.
Target(k) ==
    LET p == download.packagesToDownload[k]
    IN TarballPath(download.destFolder, p.name, p.version, p.isLatest)

\* C22: the downloadPackageTarball calls of one downloadPackages call for
\* two packages that differ in name or in version are asked to write
\* different files.
C22_DistinctPaths ==
    \A j, k \in 1..Len(download.packagesToDownload) :
        LET p == download.packagesToDownload[j]
            q == download.packagesToDownload[k]
        IN Coord(p.name, p.version) # Coord(q.name, q.version) => Target(j) # Target(k)

\* Two writes of one call to the same file were both pending.
SameFilePending == \E j, k \in Downloading : j # k /\ Target(j) = Target(k)


====
